---- MODULE Spec2Model ----
(***************************************************************************)
(* CvsCell<T> (src/src/lib.rs): a #[repr(transparent)] wrapper around one  *)
(* UnsafeCell<T> slot whose reads and writes are volatile.  The cell is    *)
(* Sync, so several execution contexts (a main flow and the handlers that  *)
(* preempt it) hold &CvsCell and their memory transactions interleave.     *)
(* Every volatile read and every volatile write is one step of the model.  *)
(***************************************************************************)
EXTENDS Integers, Sequences, FiniteSets, TLC

\* T is modelled as the residues 0..MaxVal; closures wrap around.
MaxVal == 2
\* Execution contexts holding a reference to the cell: 1 is the main flow,
\* the others are handlers that may run between any two of its steps.
NumCtx == 2

T == 0..MaxVal
Ctx == 1..NumCtx

NoVal == 0 - 1
NoCtx == 0 - 0
NoFn == "nofn"
NoPtr == "noptr"

\* The closures handed to update: |x| x + 1 (module docs) and |x| x * 2
\* (doc test of update), over the residues of T.
Fns == {"inc", "dbl"}

Apply(g, x) ==
    IF g = "inc" THEN (x + 1) % (MaxVal + 1)
    ELSE (x * 2) % (MaxVal + 1)

VARIABLES
    value,   \* CvsCell.value: the content of the UnsafeCell<T> slot
    live,    \* TRUE until into_inner(self) has consumed the cell
    pc,      \* per context: "idle", "update" (between the read and the write
             \* of update) or "replace" (same, for replace)
    old,     \* per context: update's local `old`
    f,       \* per context: the closure of the update in progress
    val,     \* per context: the argument of the replace in progress
    dropped, \* the values whose destructor the cell has run, in order
    ptr,     \* what the pointer handed out by as_ptr addresses; NoPtr before
    hist,    \* observer: the last two events <<previous, last>>
    race     \* observer: progress of two updates whose reads were adjacent

vars == <<value, live, pc, old, f, val, dropped, ptr, hist, race>>

\* One observed event: the context, the step, the closure or argument passed
\* in, the value read or returned, and the value written to the slot.
Ev(c, op, g, a, r, w) ==
    [ctx |-> c, op |-> op, f |-> g, arg |-> a, ret |-> r, w |-> w]

NoEvent == Ev(NoCtx, "none", NoFn, NoVal, NoVal, NoVal)

Log(e) == <<hist[2], e>>

\* The two observed events.
Prev == hist[1]
Last == hist[2]

\* The race observer.  n = 2: the last two events are the reads of two
\* updates by the contexts ctxs, the first of which read v.  n = 3: one of
\* the two has made its write since, with nothing in between.  n = 4: so
\* has the other.  Any other event resets it.
NoRace == [n |-> 0, ctxs |-> {}, v |-> NoVal]

RaceStep(e) ==
    IF /\ e.op = "update_read"
       /\ hist[2].op = "update_read"
       /\ hist[2].ctx # e.ctx
    THEN [n |-> 2, ctxs |-> {hist[2].ctx, e.ctx}, v |-> hist[2].ret]
    ELSE IF /\ e.op = "update"
            /\ race.n \in {2, 3}
            /\ e.ctx \in race.ctxs
            /\ (race.n = 3 => hist[2].ctx # e.ctx)
    THEN [race EXCEPT !.n = race.n + 1]
    ELSE NoRace

Observe(e) ==
    /\ hist' = Log(e)
    /\ race' = RaceStep(e)

\* A constructor that ignores its argument and stores a default.
new_default(v) == 0

\* UnsafeCell::new(val): the slot of a fresh cell.
new(v) == v

\* A plain store the optimizer removes: the slot keeps its content.
write_elided(slot, v) == slot

\* A store interrupted half way: the slot ends as a mix of the old and the
\* new content.
write_torn(slot, v) ==
    IF slot = v THEN v ELSE (slot + v) % (MaxVal + 1)

\* self.value.get().write_volatile(val): the slot after the write.
write_volatile(slot, v) == v

\* self.value.get().read_volatile(): the value read.
read_volatile(slot) == slot

\* self.value.into_inner(): the value moved out of the slot.
into_inner(slot) == slot

Init ==
    /\ \E v \in T :
         /\ value = new(v)
         /\ hist = <<NoEvent, Ev(NoCtx, "new", NoFn, v, NoVal, new(v))>>
    /\ live = TRUE
    /\ pc = [c \in Ctx |-> "idle"]
    /\ old = [c \in Ctx |-> NoVal]
    /\ f = [c \in Ctx |-> NoFn]
    /\ val = [c \in Ctx |-> NoVal]
    /\ dropped = <<>>
    /\ ptr = NoPtr
    /\ race = NoRace

\* A read that moves the value out of the slot and leaves a default behind.
Get_take(c) ==
    /\ live
    /\ pc[c] = "idle"
    /\ value' = 0
    /\ Observe(Ev(c, "get", NoFn, NoVal, read_volatile(value), NoVal))
    /\ UNCHANGED <<live, pc, old, f, val, dropped, ptr>>

\* A plain load the optimizer hoists above another context's write: it
\* yields what the slot held before that write.
Get_cached(c) ==
    /\ live
    /\ pc[c] = "idle"
    /\ Observe(Ev(c, "get", NoFn, NoVal,
                  IF hist[2].op \in {"update", "replace"} /\ hist[2].ctx # c
                  THEN hist[2].ret ELSE read_volatile(value),
                  NoVal))
    /\ UNCHANGED <<value, live, pc, old, f, val, dropped, ptr>>

\* pub fn get(&self) -> T
Get(c) ==
    /\ live
    /\ pc[c] = "idle"
    /\ Observe(Ev(c, "get", NoFn, NoVal, read_volatile(value), NoVal))
    /\ UNCHANGED <<value, live, pc, old, f, val, dropped, ptr>>

\* A set that refuses to store the value the cell already holds.
Set_checked(c, v) ==
    /\ live
    /\ pc[c] = "idle"
    /\ v # value
    /\ value' = write_volatile(value, v)
    /\ Observe(Ev(c, "set", NoFn, v, NoVal, value'))
    /\ UNCHANGED <<live, pc, old, f, val, dropped, ptr>>

\* pub fn set(&self, val: T): write_volatile overwrites the slot without
\* reading or dropping what it held, so no destructor runs.
Set(c, v) ==
    /\ live
    /\ pc[c] = "idle"
    /\ value' = write_volatile(value, v)
    /\ Observe(Ev(c, "set", NoFn, v, NoVal, value'))
    /\ UNCHANGED <<live, pc, old, f, val, dropped, ptr>>

\* An update that takes the value out of the slot before it calls f and
\* leaves a default behind.
UpdateRead_take(c, g) ==
    /\ live
    /\ pc[c] = "idle"
    /\ pc' = [pc EXCEPT ![c] = "update"]
    /\ old' = [old EXCEPT ![c] = read_volatile(value)]
    /\ f' = [f EXCEPT ![c] = g]
    /\ value' = 0
    /\ Observe(Ev(c, "update_read", g, NoVal, old'[c], NoVal))
    /\ UNCHANGED <<live, val, dropped, ptr>>

\* update, first half: let old = self.get();
UpdateRead(c, g) ==
    /\ live
    /\ pc[c] = "idle"
    /\ pc' = [pc EXCEPT ![c] = "update"]
    /\ old' = [old EXCEPT ![c] = read_volatile(value)]
    /\ f' = [f EXCEPT ![c] = g]
    /\ Observe(Ev(c, "update_read", g, NoVal, old'[c], NoVal))
    /\ UNCHANGED <<value, live, val, dropped, ptr>>

\* An update that returns the new value instead of the old one.
UpdateWrite_new(c) ==
    /\ live
    /\ pc[c] = "update"
    /\ value' = write_volatile(value, Apply(f[c], old[c]))
    /\ Observe(Ev(c, "update", f[c], NoVal, value', value'))
    /\ pc' = [pc EXCEPT ![c] = "idle"]
    /\ old' = [old EXCEPT ![c] = NoVal]
    /\ f' = [f EXCEPT ![c] = NoFn]
    /\ UNCHANGED <<live, val, dropped, ptr>>

\* An update that reads again when it writes (an atomic read-modify-write):
\* it applies the closure to the current content and returns that content.
UpdateWrite_rmw(c) ==
    /\ live
    /\ pc[c] = "update"
    /\ value' = write_volatile(value, Apply(f[c], read_volatile(value)))
    /\ Observe(Ev(c, "update", f[c], NoVal, read_volatile(value), value'))
    /\ pc' = [pc EXCEPT ![c] = "idle"]
    /\ old' = [old EXCEPT ![c] = NoVal]
    /\ f' = [f EXCEPT ![c] = NoFn]
    /\ UNCHANGED <<live, val, dropped, ptr>>

\* An update that spins until no other context is inside an update.
UpdateWrite_wait(c) ==
    /\ live
    /\ pc[c] = "update"
    /\ \A d \in Ctx \ {c} : pc[d] # "update"
    /\ value' = write_volatile(value, Apply(f[c], old[c]))
    /\ Observe(Ev(c, "update", f[c], NoVal, old[c], value'))
    /\ pc' = [pc EXCEPT ![c] = "idle"]
    /\ old' = [old EXCEPT ![c] = NoVal]
    /\ f' = [f EXCEPT ![c] = NoFn]
    /\ UNCHANGED <<live, val, dropped, ptr>>

\* An update that stores f(old) only if the slot still holds old (a
\* compare-and-swap): a write made since the read survives.
UpdateWrite_cas(c) ==
    /\ live
    /\ pc[c] = "update"
    /\ value' = IF read_volatile(value) = old[c]
                THEN write_volatile(value, Apply(f[c], old[c]))
                ELSE value
    /\ Observe(Ev(c, "update", f[c], NoVal, old[c], value'))
    /\ pc' = [pc EXCEPT ![c] = "idle"]
    /\ old' = [old EXCEPT ![c] = NoVal]
    /\ f' = [f EXCEPT ![c] = NoFn]
    /\ UNCHANGED <<live, val, dropped, ptr>>

\* update, second half: self.set(f(old)); old
UpdateWrite(c) ==
    /\ live
    /\ pc[c] = "update"
    /\ value' = write_volatile(value, Apply(f[c], old[c]))
    /\ Observe(Ev(c, "update", f[c], NoVal, old[c], value'))
    /\ pc' = [pc EXCEPT ![c] = "idle"]
    /\ old' = [old EXCEPT ![c] = NoVal]
    /\ f' = [f EXCEPT ![c] = NoFn]
    /\ UNCHANGED <<live, val, dropped, ptr>>

\* update, inside f(old): the closure holds a reference to the cell and
\* calls set(v) on it before it returns.  The event carries the closure.
SetInClosure(c, v) ==
    /\ live
    /\ pc[c] = "update"
    /\ value' = write_volatile(value, v)
    /\ Observe(Ev(c, "set", f[c], v, NoVal, value'))
    /\ UNCHANGED <<live, pc, old, f, val, dropped, ptr>>

\* update, f(old) does not return: the closure panics and the call unwinds
\* before self.set is reached.
UpdatePanic(c) ==
    /\ live
    /\ pc[c] = "update"
    /\ Observe(Ev(c, "update_panic", f[c], NoVal, NoVal, NoVal))
    /\ pc' = [pc EXCEPT ![c] = "idle"]
    /\ old' = [old EXCEPT ![c] = NoVal]
    /\ f' = [f EXCEPT ![c] = NoFn]
    /\ UNCHANGED <<value, live, val, dropped, ptr>>

\* replace(value), first half: the volatile read of the stored value.
ReplaceRead(c, v) ==
    /\ live
    /\ pc[c] = "idle"
    /\ pc' = [pc EXCEPT ![c] = "replace"]
    /\ old' = [old EXCEPT ![c] = read_volatile(value)]
    /\ val' = [val EXCEPT ![c] = v]
    /\ Observe(Ev(c, "replace_read", NoFn, v, old'[c], NoVal))
    /\ UNCHANGED <<value, live, f, dropped, ptr>>

\* A replace that swaps on a local copy and never writes the slot.
ReplaceWrite_local(c) ==
    /\ live
    /\ pc[c] = "replace"
    /\ Observe(Ev(c, "replace", NoFn, val[c], old[c], NoVal))
    /\ pc' = [pc EXCEPT ![c] = "idle"]
    /\ old' = [old EXCEPT ![c] = NoVal]
    /\ val' = [val EXCEPT ![c] = NoVal]
    /\ UNCHANGED <<value, live, f, dropped, ptr>>

\* replace(value), second half: the volatile write of the new value; the
\* value read before is returned by move.
ReplaceWrite(c) ==
    /\ live
    /\ pc[c] = "replace"
    /\ value' = write_volatile(value, val[c])
    /\ Observe(Ev(c, "replace", NoFn, val[c], old[c], value'))
    /\ pc' = [pc EXCEPT ![c] = "idle"]
    /\ old' = [old EXCEPT ![c] = NoVal]
    /\ val' = [val EXCEPT ![c] = NoVal]
    /\ UNCHANGED <<live, f, dropped, ptr>>

\* An into_inner that takes &self: it hands out the value and the cell stays.
IntoInner_borrow(c) ==
    /\ live
    /\ \A d \in Ctx : pc[d] = "idle"
    /\ Observe(Ev(c, "into_inner", NoFn, NoVal, into_inner(value), NoVal))
    /\ UNCHANGED <<value, live, pc, old, f, val, dropped, ptr>>

\* pub fn into_inner(self) -> T: takes the cell by value, so no context is
\* inside a call that borrows it.
IntoInner(c) ==
    /\ live
    /\ \A d \in Ctx : pc[d] = "idle"
    /\ live' = FALSE
    /\ Observe(Ev(c, "into_inner", NoFn, NoVal, into_inner(value), NoVal))
    /\ UNCHANGED <<value, pc, old, f, val, dropped, ptr>>

\* A pointer to a temporary copy of the stored value.
as_ptr_copy(addr) == "copy"

\* self.value.get(): the address of the UnsafeCell's content.
as_ptr(addr) == addr

\* pub const fn as_ptr(&self) -> *mut T
AsPtr(c) ==
    /\ live
    /\ pc[c] = "idle"
    /\ Observe(Ev(c, "as_ptr", NoFn, NoVal, NoVal, NoVal))
    /\ UNCHANGED <<value, live, pc, old, f, val, dropped, ptr>>

\* The caller of as_ptr hands the pointer it was just given to external
\* code (a driver, a DMA engine), which keeps it.
PtrTake ==
    /\ live
    /\ Last.op = "as_ptr"
    /\ ptr = NoPtr
    /\ ptr' = as_ptr("slot")
    /\ UNCHANGED <<value, live, pc, old, f, val, dropped, hist, race>>

\* External code stores v through the pointer: the slot changes when the
\* pointer addresses it.
PtrWrite(v) ==
    /\ live
    /\ ptr # NoPtr
    /\ value' = IF ptr = "slot" THEN v ELSE value
    /\ Observe(Ev(NoCtx, "ptr_write", NoFn, v, NoVal, v))
    /\ UNCHANGED <<live, pc, old, f, val, dropped, ptr>>

\* External code loads through the pointer.
PtrRead ==
    /\ live
    /\ ptr # NoPtr
    /\ Observe(Ev(NoCtx, "ptr_read", NoFn, NoVal,
                  IF ptr = "slot" THEN value ELSE NoVal, NoVal))
    /\ UNCHANGED <<value, live, pc, old, f, val, dropped, ptr>>

Next ==
    \/ \E c \in Ctx : Get(c)
    \/ \E c \in Ctx, v \in T : Set(c, v)
    \/ \E c \in Ctx, g \in Fns : UpdateRead(c, g)
    \/ \E c \in Ctx : UpdateWrite(c)
    \/ \E c \in Ctx, v \in T : ReplaceRead(c, v)
    \/ \E c \in Ctx : ReplaceWrite(c)
    \/ \E c \in Ctx : IntoInner(c)
    \/ \E c \in Ctx : AsPtr(c)

Spec == Init /\ [][Next]_vars

\* The operations src/src/lib.rs defines, with what their callers can do
\* around them: a closure that writes the cell or panics, and external code
\* that uses the pointer.
NextCode ==
    \/ \E c \in Ctx : Get(c)
    \/ \E c \in Ctx, v \in T : Set(c, v)
    \/ \E c \in Ctx, g \in Fns : UpdateRead(c, g)
    \/ \E c \in Ctx, v \in T : SetInClosure(c, v)
    \/ \E c \in Ctx : UpdatePanic(c)
    \/ \E c \in Ctx : UpdateWrite(c)
    \/ \E c \in Ctx : IntoInner(c)
    \/ \E c \in Ctx : AsPtr(c)
    \/ PtrTake
    \/ \E v \in T : PtrWrite(v)
    \/ PtrRead

SpecCode == Init /\ [][NextCode]_vars

----------------------------------------------------------------------------
\* The steps that store a value in the slot.

IsWrite(e) == e.op \in {"set", "update", "replace", "ptr_write"}

Stored(e) == IsWrite(e) \/ e.op = "new"

\* C1: replace(v2) stores v2 and returns the value that was stored: the slot
\* holds v2 when replace returns, a get right after returns v2, replace reads
\* the value the last write (or new) stored, which is what a get right before
\* it returned, and it returns the value it read.
C1_ReplaceSwaps ==
    /\ Last.op = "replace" =>
          /\ Last.w = Last.arg
          /\ read_volatile(value) = Last.arg
    /\ (Prev.op = "replace_read" /\ Last.op = "replace" /\ Prev.ctx = Last.ctx) =>
          /\ Last.ret = Prev.ret
          /\ Last.arg = Prev.arg
    /\ (Stored(Prev) /\ Last.op = "replace_read") => Last.ret = Prev.w
    /\ (Prev.op = "get" /\ Last.op = "replace_read") => Last.ret = Prev.ret
    /\ (Prev.op = "replace" /\ Last.op = "get") => Last.ret = Prev.arg

C1_Witness ==
    /\ Prev.op = "replace"
    /\ Last.op = "get"
    /\ Last.ret = Prev.arg
    /\ Prev.ret # Prev.arg

\* C2: an update(f) whose read and write are adjacent, on a cell holding v,
\* returns v and leaves f(v) stored, so that a get right after returns f(v).
C2_UpdateReturnsOld ==
    /\ (Stored(Prev) /\ Last.op = "update_read") => Last.ret = Prev.w
    /\ (Prev.op = "update_read" /\ Last.op = "update" /\ Prev.ctx = Last.ctx) =>
          /\ Last.f = Prev.f
          /\ Last.ret = Prev.ret
          /\ Last.w = Apply(Last.f, Prev.ret)
          /\ read_volatile(value) = Apply(Last.f, Prev.ret)
    /\ (Prev.op = "update" /\ Last.op = "get") =>
          Last.ret = Apply(Prev.f, Prev.ret)

C2_Witness ==
    /\ Prev.op = "update_read"
    /\ Last.op = "update"
    /\ Prev.ctx = Last.ctx
    /\ Last.f = "dbl"
    /\ Last.ret = 1
    /\ value = 2

\* C3: when the reads of two updates by different contexts are adjacent and
\* the two writes follow, both calls return the value v both read, and the
\* slot ends with the second writer's closure applied to v: the first
\* writer's update is lost.
C3_LostUpdate ==
    /\ race.n = 2 =>
          \A c \in race.ctxs : pc[c] = "update" /\ old[c] = race.v
    /\ race.n = 3 =>
          /\ Last.op = "update"
          /\ Last.ret = race.v
          /\ \A c \in race.ctxs \ {Last.ctx} :
                pc[c] = "update" /\ old[c] = race.v
    /\ race.n = 4 =>
          /\ Prev.op = "update" /\ Last.op = "update"
          /\ {Prev.ctx, Last.ctx} = race.ctxs
          /\ Prev.ret = race.v
          /\ Last.ret = race.v
          /\ read_volatile(value) = Apply(Last.f, race.v)

\* Two increments of v that end at v + 1 and not at v + 2.
C3_Witness ==
    /\ race.n = 4
    /\ Prev.f = "inc" /\ Last.f = "inc"
    /\ Prev.ret = Last.ret
    /\ value = Apply("inc", race.v)
    /\ value # Apply("inc", Apply("inc", race.v))

\* C4: the slot holds the value of the most recently completed write and not
\* the one written before it, and a get right after a write returns it.
C4_LastWriterWins ==
    /\ IsWrite(Last) => read_volatile(value) = Last.w
    /\ Last.op = "set" => Last.w = Last.arg
    /\ (IsWrite(Prev) /\ Last.op = "get") => Last.ret = Prev.w

C4_Witness ==
    /\ Prev.op = "set" /\ Last.op = "set"
    /\ Prev.arg # Last.arg
    /\ value = Last.arg

\* C5: a get issued right after new(v) returns v.
C5_GetAfterNew ==
    /\ Last.op = "new" => read_volatile(value) = Last.arg
    /\ (Prev.op = "new" /\ Last.op = "get") => Last.ret = Prev.arg

C5_Witness ==
    /\ Prev.op = "new"
    /\ Last.op = "get"
    /\ Last.ret = MaxVal

\* C6: into_inner returns the stored value (v right after new(v)) and is the
\* only way the cell ends; once it has run no operation can be performed.
C6_IntoInnerTerminal ==
    /\ Last.op = "into_inner" =>
          /\ ~live
          /\ Last.ret = value
          /\ Stored(Prev) => Last.ret = Prev.w
          /\ Prev.op = "new" => Last.ret = Prev.arg
    /\ ~live =>
          /\ Last.op = "into_inner"
          /\ Prev.op # "into_inner"
          /\ \A c \in Ctx :
                /\ ~ENABLED Get(c)
                /\ ~ENABLED UpdateWrite(c)
                /\ ~ENABLED ReplaceWrite(c)
                /\ ~ENABLED AsPtr(c)
                /\ ~ENABLED IntoInner(c)
                /\ \A v \in T : ~ENABLED Set(c, v) /\ ~ENABLED ReplaceRead(c, v)
                /\ \A g \in Fns : ~ENABLED UpdateRead(c, g)

C6_Witness ==
    /\ ~live
    /\ Prev.op = "new"
    /\ Last.op = "into_inner"
    /\ Last.ret = Prev.arg

\* C7: get leaves the stored value as it was, and a second get with no write
\* in between returns what the first returned.
C7_GetIdempotent ==
    /\ Last.op = "get" => value = Last.ret
    /\ (Prev.op = "get" /\ ~IsWrite(Last)) => value = Prev.ret
    /\ (Prev.op = "get" /\ Last.op = "get") => Last.ret = Prev.ret

C7_Witness ==
    /\ Prev.op = "get" /\ Last.op = "get"
    /\ Prev.ctx # Last.ctx
    /\ Last.ret = MaxVal

C9_NoOperationFails ==
    /\ value \in T
    /\ \A i \in {1, 2} :
          /\ hist[i].op \in {"get", "update_read", "update", "replace_read",
                              "replace", "into_inner"} => hist[i].ret \in T
          /\ Stored(hist[i]) => hist[i].w \in T
    /\ live =>
          \A c \in Ctx :
            /\ pc[c] = "idle" =>
                  /\ ENABLED Get(c)
                  /\ ENABLED AsPtr(c)
                  /\ \A v \in T : ENABLED Set(c, v) /\ ENABLED ReplaceRead(c, v)
                  /\ \A g \in Fns : ENABLED UpdateRead(c, g)
            /\ pc[c] = "update" => ENABLED UpdateWrite(c)
            /\ pc[c] = "replace" => ENABLED ReplaceWrite(c)
            /\ (\A d \in Ctx : pc[d] = "idle") => ENABLED IntoInner(c)

C9_Witness ==
    /\ live
    /\ Last.op = "set" /\ Last.arg = value
    /\ Prev.op = "set" /\ Prev.arg = Last.arg
    /\ \E c \in Ctx : pc[c] = "update"

\* C11: a set drops the value it overwrites before it returns: right after
\* a set the overwritten value is the last one dropped, and after new(u)
\* followed by set(v) exactly u has been dropped.
C11_SetDropsOverwritten ==
    /\ (Stored(Prev) /\ Last.op = "set") =>
          /\ dropped # <<>>
          /\ dropped[Len(dropped)] = Prev.w
    /\ (Prev.op = "new" /\ Last.op = "set") => dropped = <<Prev.arg>>

\* The value a completed write was asked to store: the argument of set and
\* replace (and of a write through the pointer), f(old) for update.
Written(e) == IF e.op = "update" THEN Apply(e.f, e.ret) ELSE e.arg

\* C12: the slot starts with the value given to new and, whatever the
\* interleaving, changes only by a completed write, which leaves exactly the
\* whole value that write was given; so it always holds one value of T.
C12_SlotAlwaysWhole ==
    /\ (value \in T /\ Last.op = "new" /\ value = Last.arg)
    /\ [][/\ value' \in T
          /\ (value' # value \/ IsWrite(Last')) =>
                /\ Last'.op \in {"set", "update", "replace", "ptr_write"}
                /\ value' = Written(Last')]_vars

\* A context is suspended between the read and the write of its update while
\* another context's set has changed the slot.
C12_Witness ==
    \E c \in Ctx :
        /\ pc[c] = "update"
        /\ Last.op = "set" /\ Last.ctx # c
        /\ value = Last.arg
        /\ value # old[c]

\* C13: no step waits.  Whatever the other contexts are doing, an idle
\* context can get, set and start an update, and a context inside an update
\* can make its write; get is done after its one read, set after its one
\* write, update after one read followed by one write.
C13_NoOperationWaits ==
    /\ live =>
          \A c \in Ctx :
            /\ pc[c] \in {"idle", "update"}
            /\ pc[c] = "idle" =>
                  /\ ENABLED Get(c)
                  /\ \A v \in T : ENABLED Set(c, v)
                  /\ \A g \in Fns : ENABLED UpdateRead(c, g)
            /\ pc[c] = "update" => ENABLED UpdateWrite(c)
    /\ Last.op = "get" =>
          /\ pc[Last.ctx] = "idle"
          /\ Last.ret = value
    /\ (Last.op = "set" /\ Last.f = NoFn) =>
          /\ pc[Last.ctx] = "idle"
          /\ value = Last.arg
    /\ Last.op = "update_read" =>
          /\ pc[Last.ctx] = "update"
          /\ old[Last.ctx] = Last.ret
          /\ value = Last.ret
    /\ Last.op = "update" =>
          /\ pc[Last.ctx] = "idle"
          /\ value = Apply(Last.f, Last.ret)

\* Every context is suspended between the read and the write of an update.
C13_Witness ==
    /\ live
    /\ \A c \in Ctx : pc[c] = "update"
    /\ Last.op = "update_read"

\* C14: as_ptr leaves the stored value as it was and the pointer it hands
\* out addresses the slot: a value written through it is stored and is what
\* the next get returns, and a read through it observes what set stored.
C14_PointerAddressesSlot ==
    /\ Last.op = "as_ptr" =>
          /\ Last.ret = NoVal /\ Last.w = NoVal
          /\ Stored(Prev) => value = Prev.w
          /\ Prev.op \in {"get", "update_read", "ptr_read"} => value = Prev.ret
    /\ ptr # NoPtr => ptr = "slot"
    /\ Last.op = "ptr_write" => read_volatile(value) = Last.arg
    /\ (Prev.op = "ptr_write" /\ Last.op = "get") => Last.ret = Prev.arg
    /\ Last.op = "ptr_read" => Last.ret = value
    /\ (Prev.op = "set" /\ Last.op = "ptr_read") => Last.ret = Prev.arg

C14_Witness ==
    /\ Prev.op = "ptr_write"
    /\ Last.op = "get"
    /\ Last.ret = Prev.arg
    /\ Last.ret = MaxVal

C16_NoWriteUnlessFReturns ==
    /\ Last.op = "update_read" =>
          /\ value = Last.ret
          /\ Stored(Prev) => value = Prev.w
    /\ Last.op = "update_panic" =>
          /\ Last.w = NoVal
          /\ pc[Last.ctx] = "idle"
          /\ Stored(Prev) => value = Prev.w
          /\ (Prev.op = "update_read" /\ Prev.ctx = Last.ctx) =>
                value = Prev.ret

C16_Witness ==
    /\ Prev.op = "update_read"
    /\ Last.op = "update_panic"
    /\ Prev.ctx = Last.ctx
    /\ value = Prev.ret
    /\ value = MaxVal

====
